---- MODULE Spec2Model ----
(***************************************************************************)
(* Binance API relay (alewzbaky/Railway).                                  *)
(*                                                                         *)
(* src/index.js holds three Express entry points (lines 1-388: the relay   *)
(* with the signed account routes; lines 390-409: /api/market-data/:symbol;*)
(* lines 411-560: the public-only relay) and src/unnamed/part_000 holds a  *)
(* bare query-parameter handler.  One behaviour of the model is one        *)
(* deployed entry point serving requests.                                  *)
(*                                                                         *)
(* Text is a sequence of one-token strings, so that serialisation and      *)
(* percent-encoding are computed and not assumed.                          *)
(***************************************************************************)
EXTENDS Integers, Sequences, FiniteSets, TLC

VARIABLES app, clock, limiter, window, txn, signCall

vars == <<app, clock, limiter, window, txn, signCall>>

----------------------------------------------------------------------------
(* Bounds of the model                                                     *)

\* requests a client may still send after its quota is used up
MaxOver == 2
\* number of half-window clock steps
MaxTicks == 2
\* longest upstream balances array
MaxBalances == 2
\* largest parameter set handed to the signature helper on its own
MaxSignParams == 2

(* Program constants                                                       *)
Points == 60
Duration == 60

TickSeconds == Duration \div 2

----------------------------------------------------------------------------
(* Optional values: a header, path or query parameter that may be absent.  *)

Absent == [present |-> FALSE, val |-> <<>>]
Given(v) == [present |-> TRUE, val |-> v]

\* JavaScript truthiness of a string-or-undefined value: !x is true for
\* undefined and for the empty string.
Truthy(o) == o.present /\ o.val # <<>>

----------------------------------------------------------------------------
(* Text helpers                                                            *)

RECURSIVE Flatten(_)
Flatten(ss) == IF ss = <<>> THEN <<>> ELSE Head(ss) \o Flatten(Tail(ss))

RECURSIVE Join(_, _)
Join(parts, sep) ==
  IF parts = <<>> THEN <<>>
  ELSE IF Len(parts) = 1 THEN Head(parts)
  ELSE Head(parts) \o sep \o Join(Tail(parts), sep)

\* t occurs in s as a contiguous run of tokens
Contains(s, t) ==
  \E i \in 1..(Len(s) + 1) :
    /\ i + Len(t) - 1 <= Len(s)
    /\ \A j \in 1..Len(t) : s[i + j - 1] = t[j]

\* template-literal rendering `${value}` of a parameter value
Render(o) == IF o.present THEN o.val ELSE <<"undefined">>

----------------------------------------------------------------------------
(* Signature helper                                                        *)

\* crypto.createHmac('sha256', key).update(msg).digest('hex'): an injective,
\* deterministic token of (key, msg); the digest reveals neither.
HmacSha256Hex(key, msg) == ToString(<<key, msg>>)

\* Object.entries(params).map(([k, v]) => `${k}=${v}`).join('&')
CanonicalQuery(params) ==
  Join([i \in 1..Len(params) |-> <<params[i].key, "=">> \o Render(params[i].val)],
       <<"&">>)

\* a signature helper that rejects an empty secret or parameter set
createBinanceSignature_Validating(apiSecret, queryStringParams) ==
  IF apiSecret = <<>> \/ queryStringParams = <<>>
  THEN [threw |-> TRUE, message |-> <<>>, digest |-> ""]
  ELSE [threw |-> FALSE, message |-> CanonicalQuery(queryStringParams),
        digest |-> HmacSha256Hex(apiSecret, CanonicalQuery(queryStringParams))]

createBinanceSignature(apiSecret, queryStringParams) ==
  [threw |-> FALSE,
   message |-> CanonicalQuery(queryStringParams),
   digest |-> HmacSha256Hex(apiSecret, CanonicalQuery(queryStringParams))]

----------------------------------------------------------------------------
(* Outbound request as axios puts it on the wire                           *)

\* axios percent-encodes every parameter value: encodeURIComponent, with
\* %20 rewritten to '+'.  Letters and digits are left alone.
EncodeChar(c) ==
  CASE c = "&" -> <<"%", "2", "6">>
    [] c = "=" -> <<"%", "3", "D">>
    [] c = "%" -> <<"%", "2", "5">>
    [] c = " " -> <<"+">>
    [] OTHER -> <<c>>

Encode(s) == Flatten([i \in 1..Len(s) |-> EncodeChar(s[i])])

\* axios drops parameters whose value is undefined
DefinedParams(params) == SelectSeq(params, LAMBDA e : e.val.present)

\* buildURL: key=value pairs in the params object's own key order
SerializeParams(params) ==
  LET ps == DefinedParams(params)
  IN Join([i \in 1..Len(ps) |-> <<ps[i].key, "=">> \o Encode(ps[i].val.val)],
          <<"&">>)

\* the query string of one outbound call: the text already in the URL, or
\* the serialised params option
WireQuery(call) ==
  IF call.rawQuery # <<>> THEN call.rawQuery ELSE SerializeParams(call.params)

Param(k, o) == [key |-> k, val |-> o]
Header(n, v) == [name |-> n, val |-> v]

Call(path, rawQuery, params, headers) ==
  [path |-> path, rawQuery |-> rawQuery, params |-> params, headers |-> headers]

----------------------------------------------------------------------------
(* Upstream replies as axios hands them to a handler                       *)

\* response.data / error.response.data after axios has parsed the body:
\* shape "object" or "array" for JSON of that kind, "null" for the JSON
\* literal null, "text" for a body that is not JSON (axios keeps the string)
Data(shape, msg, price, balancesKind, balances, items) ==
  [shape |-> shape, msg |-> msg, price |-> price,
   balancesKind |-> balancesKind, balances |-> balances, items |-> items]

PlainObject == Data("object", Absent, Absent, "absent", <<>>, <<>>)
NullBody == Data("null", Absent, Absent, "absent", <<>>, <<>>)
TextBody == Data("text", Absent, Absent, "absent", <<>>, <<>>)
MsgObject == Data("object", Given(<<"rate limited by exchange">>), Absent, "absent", <<>>, <<>>)
EmptyMsgObject == Data("object", Given(<<>>), Absent, "absent", <<>>, <<>>)
PriceObject == Data("object", Absent, Given(<<"50000">>), "absent", <<>>, <<>>)
ArrayBody(items) == Data("array", Absent, Absent, "absent", <<>>, items)
AccountObject(kind, balances) == Data("object", Absent, Absent, kind, balances, <<>>)

Ok(data) == [kind |-> "ok", status |-> 200, data |-> data]
Reject(status, data) == [kind |-> "reject", status |-> status, data |-> data]
Transport == [kind |-> "transport", status |-> 0, data |-> NullBody]
NoReply == [kind |-> "none", status |-> 0, data |-> NullBody]

ErrStatuses == {400, 418}
RejectBodies == {MsgObject, EmptyMsgObject, PlainObject, TextBody, NullBody}
Failures == {Reject(s, d) : s \in ErrStatuses, d \in RejectBodies} \cup {Transport}

\* error.message of the error axios throws
ErrorMessage(up) ==
  IF up.kind = "reject"
  THEN <<"Request failed with status code ", ToString(up.status)>>
  ELSE <<"connect ETIMEDOUT">>

TypeErrorMessage == <<"TypeError">>

\* reading a property of response data: JavaScript throws on null only
ReadThrows(data) == data.shape = "null"

----------------------------------------------------------------------------
(* Responses                                                               *)

EmptyBody ==
  [fields |-> {}, error |-> <<>>, code |-> 0, message |-> <<>>, state |-> "",
   details |-> NullBody, data |-> NullBody, price |-> Absent,
   prices |-> <<>>, balances |-> <<>>]

Json(status, body) == [status |-> status, format |-> "json", body |-> body]

\* { error: <message> }
ErrorOnly(message) ==
  [EmptyBody EXCEPT !.fields = {"error"}, !.error = message]

\* { error: <label>, message: <text> }
Labelled(label, message) ==
  [EmptyBody EXCEPT !.fields = {"error", "message"}, !.error = label, !.message = message]

\* { error: <label>, code: <status>, message: <text> }
Detailed(label, code, message) ==
  [EmptyBody EXCEPT !.fields = {"error", "code", "message"},
                    !.error = label, !.code = code, !.message = message]

\* res.json(response.data)
Passthrough(data) == [EmptyBody EXCEPT !.fields = {"data"}, !.data = data]

NoResponse == [status |-> 0, format |-> "none", body |-> EmptyBody]

\* An exception that leaves an async handler: Express 4 never hears of the
\* rejected promise (the request stays unanswered and Node reports an
\* unhandled rejection); Express 5 hands it to its default error handler,
\* which answers 500 with an HTML page.  Which one is installed is not fixed
\* by the source.
Frameworks == {"express4", "express5"}
Escaped(ex) ==
  IF ex = "express4" THEN NoResponse
  ELSE [status |-> 500, format |-> "html", body |-> EmptyBody]

\* Express' answer when no route matches
NotFound == [status |-> 404, format |-> "html", body |-> EmptyBody]

Outcome(sigs, calls, res) == [sigs |-> sigs, calls |-> calls, res |-> res]

----------------------------------------------------------------------------
(* Public handlers                                                         *)

BinanceCall(path, params) == Call(path, <<>>, params, <<>>)

\* GET /
RootHandler ==
  Outcome(<<>>, <<>>,
          Json(200, [EmptyBody EXCEPT !.fields = {"status", "service"}, !.state = "online"]))

\* GET /ping
PingHandler(up) ==
  Outcome(<<>>, <<BinanceCall("/api/v3/ping", <<>>)>>,
    IF up.kind = "ok"
    THEN Json(200, [EmptyBody EXCEPT !.fields = {"status", "binance_status"},
                                     !.state = "success"])
    ELSE Json(500, [EmptyBody EXCEPT !.fields = {"status", "message"},
                                     !.state = "error", !.message = ErrorMessage(up)]))

\* GET /price/:symbol
PriceHandler(req, up) ==
  Outcome(<<>>, <<BinanceCall("/api/v3/ticker/price", <<Param("symbol", req.symbol)>>)>>,
    CASE up.kind = "ok" /\ ReadThrows(up.data) -> Json(500, ErrorOnly(TypeErrorMessage))
      [] up.kind = "ok" /\ ~ReadThrows(up.data) ->
           Json(200, [EmptyBody EXCEPT !.fields = IF up.data.price.present THEN {"price"} ELSE {},
                                       !.price = up.data.price])
      [] up.kind = "reject" ->
           Json(up.status, [EmptyBody EXCEPT !.fields = {"error", "details"},
                                             !.error = <<"Failed to fetch price from Binance">>,
                                             !.details = up.data])
      [] OTHER -> Json(500, ErrorOnly(ErrorMessage(up))))

\* prices[item.symbol] = item.price for every item, later items overwriting
PricesMap(items) ==
  [s \in {items[i].symbol : i \in 1..Len(items)} |->
     LET at == {i \in 1..Len(items) : items[i].symbol = s}
     IN items[CHOOSE i \in at : \A j \in at : j <= i].price]

\* GET /prices
PricesHandler(up) ==
  Outcome(<<>>, <<BinanceCall("/api/v3/ticker/price", <<>>)>>,
    CASE up.kind = "ok" /\ up.data.shape = "array" ->
           Json(200, [EmptyBody EXCEPT !.fields = {"prices"}, !.prices = PricesMap(up.data.items)])
      [] up.kind = "ok" /\ up.data.shape # "array" -> Json(500, ErrorOnly(TypeErrorMessage))
      [] OTHER -> Json(500, ErrorOnly(ErrorMessage(up))))

\* a relay handler that tries a failed call a second time
RelayHandler_Retry(call, up) ==
  Outcome(<<>>, IF up.kind = "ok" THEN <<call>> ELSE <<call, call>>,
    IF up.kind = "ok" THEN Json(200, Passthrough(up.data))
    ELSE Json(500, ErrorOnly(ErrorMessage(up))))

\* the shared shape of /exchangeInfo, /klines and /ticker/24hr
RelayHandler(call, up) ==
  Outcome(<<>>, <<call>>,
    IF up.kind = "ok" THEN Json(200, Passthrough(up.data))
    ELSE Json(500, ErrorOnly(ErrorMessage(up))))

\* GET /exchangeInfo
ExchangeInfoHandler(up) == RelayHandler(BinanceCall("/api/v3/exchangeInfo", <<>>), up)

\* GET /klines
KlinesHandler(req, up) ==
  RelayHandler(BinanceCall("/api/v3/klines",
                 <<Param("symbol", req.symbol), Param("interval", req.interval),
                   Param("limit", req.limit)>>), up)

\* GET /ticker/24hr
Ticker24hrHandler(req, up) ==
  IF Truthy(req.symbol)
  THEN RelayHandler(BinanceCall("/api/v3/ticker/24hr", <<Param("symbol", req.symbol)>>), up)
  ELSE RelayHandler(BinanceCall("/api/v3/ticker/24hr", <<>>), up)

\* the request both single-symbol variants send: the symbol is pasted into
\* the URL text as it is
TickerPriceUrlCall(symbol) ==
  Call("/api/v3/ticker/price", <<"symbol", "=">> \o Render(symbol), <<>>, <<>>)

\* GET /api/market-data/:symbol
MarketDataHandler(req, up) ==
  Outcome(<<>>, <<TickerPriceUrlCall(req.symbol)>>,
    IF up.kind = "ok" THEN Json(200, Passthrough(up.data))
    ELSE Json(500, ErrorOnly(<<"Failed to fetch data from Binance">>)))

\* the query-parameter handler without its symbol check
SymbolQueryHandler_NoCheck(req, up) ==
  Outcome(<<>>, <<TickerPriceUrlCall(req.symbol)>>,
    IF up.kind = "ok" THEN Json(200, Passthrough(up.data))
    ELSE Json(500, ErrorOnly(<<"Failed to fetch data from Binance">>)))

\* the query-parameter handler of part_000
SymbolQueryHandler(req, up) ==
  IF ~Truthy(req.symbol)
  THEN Outcome(<<>>, <<>>, Json(400, ErrorOnly(<<"Symbol is required">>)))
  ELSE Outcome(<<>>, <<TickerPriceUrlCall(req.symbol)>>,
         IF up.kind = "ok" THEN Json(200, Passthrough(up.data))
         ELSE Json(500, ErrorOnly(<<"Failed to fetch data from Binance">>)))

----------------------------------------------------------------------------
(* Signed account handlers                                                 *)

\* Date.now(), in milliseconds, as it is written into a query string
Timestamp(now) == Given(<<ToString(now * 1000)>>)

MissingCredentials ==
  Json(400, Labelled(<<"Missing API credentials">>,
         <<"X-API-KEY and X-API-SECRET headers are required for account endpoints">>))

MissingSymbol ==
  Json(400, Labelled(<<"Missing symbol parameter">>,
         <<"Symbol parameter is required for myTrades endpoint">>))

\* a dispatch that also sends the key as a query parameter
SignedCall_KeyInQuery(path, apiKey, queryParams, signature) ==
  Call(path, <<>>,
       Append(Append(queryParams, Param("apiKey", Given(apiKey))),
              Param("signature", Given(<<signature>>))),
       <<Header("X-MBX-APIKEY", apiKey)>>)

\* axios.get(url, { params: { ...queryParams, signature }, headers: { 'X-MBX-APIKEY': apiKey } })
SignedCall(path, apiKey, queryParams, signature) ==
  Call(path, <<>>, Append(queryParams, Param("signature", Given(<<signature>>))),
       <<Header("X-MBX-APIKEY", apiKey)>>)

\* a catch block that answers 500 whatever the upstream said
AccountCatch_Flat(label, up, ex) == Json(500, ErrorOnly(ErrorMessage(up)))

\* the catch block shared by the four account handlers
AccountCatch(label, up, ex) ==
  IF up.kind = "reject"
  THEN IF ReadThrows(up.data)
       THEN Escaped(ex)
       ELSE Json(up.status,
                 Detailed(label, up.status,
                          IF Truthy(up.data.msg) THEN up.data.msg.val ELSE ErrorMessage(up)))
  ELSE Json(500, ErrorOnly(ErrorMessage(up)))

\* credentials check, signing and dispatch shared by the account handlers;
\* onOk maps a 2xx reply to the response
SignedExchange(req, path, queryParams, label, up, ex, onOk) ==
  LET sig == createBinanceSignature(req.apiSecret.val, queryParams)
  IN IF sig.threw
     THEN Outcome(<<>>, <<>>, Json(500, ErrorOnly(<<"InvalidInput">>)))
     ELSE Outcome(<<[secret |-> req.apiSecret.val, message |-> sig.message,
                     digest |-> sig.digest]>>,
                  <<SignedCall(path, req.apiKey.val, queryParams, sig.digest)>>,
                  IF up.kind = "ok" THEN onOk ELSE AccountCatch(label, up, ex))

\* parseFloat of an amount string: sign, digits read, digits after the point
Digits == {"0", "1", "2", "3", "4", "5", "6", "7", "8", "9"}
DigitValue(c) == CHOOSE n \in 0..9 : ToString(n) = c

RECURSIVE ReadDigits(_, _)
ReadDigits(s, acc) ==
  IF s # <<>> /\ Head(s) \in Digits
  THEN ReadDigits(Tail(s), [n |-> acc.n * 10 + DigitValue(Head(s)), read |-> acc.read + 1])
  ELSE [n |-> acc.n, read |-> acc.read, rest |-> s]

ParseFloat(s) ==
  LET neg == s # <<>> /\ Head(s) = "-"
      body == IF neg THEN Tail(s) ELSE s
      int == ReadDigits(body, [n |-> 0, read |-> 0])
      frac == IF int.rest # <<>> /\ Head(int.rest) = "."
              THEN ReadDigits(Tail(int.rest), [n |-> 0, read |-> 0])
              ELSE [n |-> 0, read |-> 0, rest |-> int.rest]
  IN [nan |-> int.read + frac.read = 0,
      negative |-> neg,
      whole |-> int.n, fraction |-> frac.n, places |-> frac.read]

\* parseFloat(x) > 0
PositiveFloat(s) ==
  LET f == ParseFloat(s)
  IN ~f.nan /\ ~f.negative /\ (f.whole > 0 \/ f.fraction > 0)

\* keeps zero balances too
KeepBalance_All(balance) == TRUE

\* balance => parseFloat(balance.free) > 0 || parseFloat(balance.locked) > 0
KeepBalance(balance) == PositiveFloat(balance.free) \/ PositiveFloat(balance.locked)

\* .filter(...).map(balance => ({ asset, available: free, onOrder: locked }))
FilteredBalances(balances) ==
  LET kept == SelectSeq(balances, KeepBalance)
  IN [i \in 1..Len(kept) |->
        [asset |-> kept[i].asset, available |-> kept[i].free, onOrder |-> kept[i].locked]]

BalancesOk(data) ==
  CASE data.shape # "object" \/ data.balancesKind = "absent" ->
         Json(500, ErrorOnly(<<"Invalid response from Binance API">>))
    [] data.shape = "object" /\ data.balancesKind = "scalar" ->
         Json(500, ErrorOnly(TypeErrorMessage))
    [] OTHER ->
         Json(200, [EmptyBody EXCEPT !.fields = {"balances"},
                                     !.balances = FilteredBalances(data.balances)])

\* a credential check that forgets the secret
HasCredentials_KeyOnly(req) == Truthy(req.apiKey)

\* the credential check of the account handlers
HasCredentials(req) == Truthy(req.apiKey) /\ Truthy(req.apiSecret)

\* GET /balances
BalancesHandler(req, now, up, ex) ==
  IF ~HasCredentials(req)
  THEN Outcome(<<>>, <<>>, MissingCredentials)
  ELSE SignedExchange(req, "/api/v3/account", <<Param("timestamp", Timestamp(now))>>,
                      <<"Failed to fetch balances from Binance">>, up, ex,
                      BalancesOk(up.data))

\* GET /account
AccountHandler(req, now, up, ex) ==
  IF ~HasCredentials(req)
  THEN Outcome(<<>>, <<>>, MissingCredentials)
  ELSE SignedExchange(req, "/api/v3/account", <<Param("timestamp", Timestamp(now))>>,
                      <<"Failed to fetch account info from Binance">>, up, ex,
                      Json(200, Passthrough(up.data)))

\* queryParams with the optional entries the caller supplied, in source order
WithOptional(queryParams, name, o) ==
  IF Truthy(o) THEN Append(queryParams, Param(name, o)) ELSE queryParams

\* GET /openOrders
OpenOrdersHandler(req, now, up, ex) ==
  IF ~HasCredentials(req)
  THEN Outcome(<<>>, <<>>, MissingCredentials)
  ELSE SignedExchange(req, "/api/v3/openOrders",
                      WithOptional(<<Param("timestamp", Timestamp(now))>>, "symbol", req.symbol),
                      <<"Failed to fetch open orders from Binance">>, up, ex,
                      Json(200, Passthrough(up.data)))

MyTradesParams(req, now) ==
  WithOptional(
    WithOptional(
      WithOptional(
        WithOptional(<<Param("timestamp", Timestamp(now)), Param("symbol", req.symbol)>>,
                     "limit", req.limit),
        "fromId", req.fromId),
      "startTime", req.startTime),
    "endTime", req.endTime)

\* GET /myTrades
MyTradesHandler(req, now, up, ex) ==
  IF ~HasCredentials(req)
  THEN Outcome(<<>>, <<>>, MissingCredentials)
  ELSE IF ~Truthy(req.symbol)
  THEN Outcome(<<>>, <<>>, MissingSymbol)
  ELSE SignedExchange(req, "/api/v3/myTrades", MyTradesParams(req, now),
                      <<"Failed to fetch trade history from Binance">>, up, ex,
                      Json(200, Passthrough(up.data)))

----------------------------------------------------------------------------
(* Entry points, routes and the rate limiter                               *)

Apps == {"relay", "public", "market", "query"}

PublicRoutes == {"root", "ping", "price", "prices", "exchangeInfo", "klines", "ticker24hr"}
AccountRoutes == {"balances", "account", "openOrders", "myTrades"}

RoutesOf(a) ==
  CASE a = "relay" -> PublicRoutes \cup AccountRoutes
    [] a = "public" -> PublicRoutes
    [] a = "market" -> {"marketData"}
    [] OTHER -> {"symbolQuery"}

\* the entry points that install the rate-limit middleware
HasLimiter(a) == a \in {"relay", "public"}

Clients == {"c1", "c2"}
OneClient == {"c1"}

NoRecord == [consumed |-> 0, expiresAt |-> 0]

\* a limiter that keeps one count for all clients
LimiterKey_Shared(req) == "c1"

\* rateLimiter.consume(req.ip)
LimiterKey(req) == req.ip

\* RateLimiterMemory.consume(key): the key's count for the running window
\* goes up by one, a new window of Duration seconds starting when the key
\* has no live record; the call is refused once the count exceeds Points.
Consume(store, key, now) ==
  LET rec == store[key]
      live == rec.consumed > 0 /\ now < rec.expiresAt
      next == IF live THEN [rec EXCEPT !.consumed = @ + 1]
              ELSE [consumed |-> 1, expiresAt |-> now + Duration]
  IN [store |-> [store EXCEPT ![key] = next], rejected |-> next.consumed > Points]

TooManyRequests == Json(429, ErrorOnly(<<"Too many requests. Please try again later.">>))

\* the requests a client has sent in its running 60-second window, counted
\* apart from the limiter: a window opens with the client's first request
\* after the previous one has run out
NextWindow(w, now) ==
  IF w.n = 0 \/ now - w.start >= Duration THEN [start |-> now, n |-> 1]
  ELSE [w EXCEPT !.n = @ + 1]

----------------------------------------------------------------------------
(* Requests and what came of them                                          *)

Req(ip, route, symbol, more, apiKey, apiSecret) ==
  [ip |-> ip, route |-> route, symbol |-> symbol,
   interval |-> more.interval, limit |-> more.limit, fromId |-> more.fromId,
   startTime |-> more.startTime, endTime |-> more.endTime,
   apiKey |-> apiKey, apiSecret |-> apiSecret]

NoMore == [interval |-> Absent, limit |-> Absent, fromId |-> Absent,
           startTime |-> Absent, endTime |-> Absent]

Plain(ip, route) == Req(ip, route, Absent, NoMore, Absent, Absent)

\* the request being served: "next" once the middleware has called next(),
\* "done" once it is answered or given up
Txn(stage, req, nth, limited, routed, up, out) ==
  [stage |-> stage, req |-> req, nth |-> nth, limited |-> limited, routed |-> routed,
   up |-> IF out.calls = <<>> THEN NoReply ELSE up,
   sigs |-> out.sigs, calls |-> out.calls, res |-> out.res]

Pending == Outcome(<<>>, <<>>, NoResponse)

NoTxn == Txn("idle", Plain("c1", "none"), 0, FALSE, FALSE, NoReply, Pending)

SymbolTexts == {<<"B", "T", "C">>, <<"A", "&", "B">>}
SymbolInputs == {Absent, Given(<<>>)} \cup {Given(s) : s \in SymbolTexts}
KeyInputs == {Absent, Given(<<>>), Given(<<"k", "1">>)}
SecretInputs == {Absent, Given(<<>>), Given(<<"s", "3", "c">>)}
Maybe(v) == {Absent, Given(v)}

BalanceEntries ==
  { [asset |-> "BTC", free |-> <<"0">>, locked |-> <<"0">>],
    [asset |-> "ETH", free |-> <<"1", ".", "5">>, locked |-> <<"0">>],
    [asset |-> "BNB", free |-> <<"0", ".", "0", "0">>, locked |-> <<"0", ".", "2">>],
    [asset |-> "XRP", free |-> <<"0", ".", "0", "0">>, locked |-> <<"0", ".", "0">>],
    [asset |-> "ADA", free |-> <<"1", "0">>, locked |-> <<"0", ".", "0", "1">>] }
BalanceArrays == UNION {[1..n -> BalanceEntries] : n \in 0..MaxBalances}

PriceLists ==
  { <<>>,
    <<[symbol |-> "BTCUSDT", price |-> "50000"], [symbol |-> "ETHUSDT", price |-> "3000"]>>,
    <<[symbol |-> "BTCUSDT", price |-> "50000"], [symbol |-> "BTCUSDT", price |-> "50001"]>> }

OkGeneric == {Ok(PlainObject), Ok(NullBody), Ok(TextBody)}
OkPrice == OkGeneric \cup {Ok(PriceObject)}
OkPrices == {Ok(ArrayBody(items)) : items \in PriceLists} \cup {Ok(PlainObject), Ok(NullBody)}
OkAccount ==
  {Ok(AccountObject("array", b)) : b \in BalanceArrays}
    \cup {Ok(AccountObject("scalar", <<>>))} \cup OkGeneric

\* A request arrives and runs through the rate-limit middleware, which
\* reads nothing of it but req.ip: it consumes a point and either calls
\* next() or answers 429 itself.  The entry points without the middleware
\* go straight on.
Arrive(C) ==
  \E ip \in C :
    /\ txn.stage # "next"
    /\ NextWindow(window[ip], clock).n <= Points + MaxOver
    /\ LET req == Plain(ip, "none")
           w == NextWindow(window[ip], clock)
           lim == IF HasLimiter(app) THEN Consume(limiter, LimiterKey(req), clock)
                  ELSE [store |-> limiter, rejected |-> FALSE]
       IN /\ window' = [window EXCEPT ![ip] = w]
          /\ limiter' = lim.store
          /\ txn' = IF lim.rejected
                    THEN Txn("done", req, w.n, TRUE, FALSE, NoReply,
                             Outcome(<<>>, <<>>, TooManyRequests))
                    ELSE Txn("next", req, w.n, FALSE, FALSE, NoReply, Pending)
    /\ UNCHANGED <<app, clock, signCall>>

\* next() has been called and this entry point has the route
Dispatched(route) == txn.stage = "next" /\ route \in RoutesOf(app)

\* Route matching and the handler, to the reply: Express answers 404 when
\* no route matches; otherwise the handler runs to its response.
Serve(req, matched, up, out) ==
  /\ txn' = IF ~matched
            THEN Txn("done", req, txn.nth, FALSE, FALSE, NoReply, Outcome(<<>>, <<>>, NotFound))
            ELSE Txn("done", req, txn.nth, FALSE, TRUE, up, out)
  /\ UNCHANGED <<app, clock, limiter, window, signCall>>

GetRoot ==
  /\ Dispatched("root")
  /\ Serve(Plain(txn.req.ip, "root"), TRUE, NoReply, RootHandler)

GetPing(U) ==
  /\ Dispatched("ping")
  /\ \E up \in U : Serve(Plain(txn.req.ip, "ping"), TRUE, up, PingHandler(up))

GetPrice ==
  /\ Dispatched("price")
  /\ \E symbol \in SymbolInputs :
       LET req == Req(txn.req.ip, "price", symbol, NoMore, Absent, Absent)
       IN \E up \in IF Truthy(symbol) THEN OkPrice \cup Failures ELSE {NoReply} :
            Serve(req, Truthy(symbol), up, PriceHandler(req, up))

GetPrices ==
  /\ Dispatched("prices")
  /\ \E up \in OkPrices \cup Failures :
       Serve(Plain(txn.req.ip, "prices"), TRUE, up, PricesHandler(up))

GetExchangeInfo ==
  /\ Dispatched("exchangeInfo")
  /\ \E up \in OkGeneric \cup Failures :
       Serve(Plain(txn.req.ip, "exchangeInfo"), TRUE, up, ExchangeInfoHandler(up))

GetKlines ==
  /\ Dispatched("klines")
  /\ \E symbol \in Maybe(<<"B", "T", "C">>), interval \in Maybe(<<"1", "h">>),
        limit \in Maybe(<<"5">>), up \in OkGeneric \cup Failures :
       LET req == Req(txn.req.ip, "klines", symbol,
                      [NoMore EXCEPT !.interval = interval, !.limit = limit], Absent, Absent)
       IN Serve(req, TRUE, up, KlinesHandler(req, up))

GetTicker24hr ==
  /\ Dispatched("ticker24hr")
  /\ \E symbol \in SymbolInputs, up \in OkGeneric \cup Failures :
       LET req == Req(txn.req.ip, "ticker24hr", symbol, NoMore, Absent, Absent)
       IN Serve(req, TRUE, up, Ticker24hrHandler(req, up))

\* the upstream replies only to a request that was sent
Replies(probe, U) == IF probe.calls = <<>> THEN {NoReply} ELSE U

\* the installed framework shows only where an exception leaves a handler
FrameworksFor(up) ==
  IF up.kind = "reject" /\ ReadThrows(up.data) THEN Frameworks ELSE {"express4"}

GetBalances ==
  /\ Dispatched("balances")
  /\ \E apiKey \in KeyInputs, apiSecret \in SecretInputs :
       LET req == Req(txn.req.ip, "balances", Absent, NoMore, apiKey, apiSecret)
       IN \E up \in Replies(BalancesHandler(req, clock, Transport, "express4"),
                            OkAccount \cup Failures) :
            \E ex \in FrameworksFor(up) :
              Serve(req, TRUE, up, BalancesHandler(req, clock, up, ex))

GetAccount ==
  /\ Dispatched("account")
  /\ \E apiKey \in KeyInputs, apiSecret \in SecretInputs :
       LET req == Req(txn.req.ip, "account", Absent, NoMore, apiKey, apiSecret)
       IN \E up \in Replies(AccountHandler(req, clock, Transport, "express4"),
                            OkGeneric \cup Failures) :
            \E ex \in FrameworksFor(up) :
              Serve(req, TRUE, up, AccountHandler(req, clock, up, ex))

GetOpenOrders ==
  /\ Dispatched("openOrders")
  /\ \E apiKey \in KeyInputs, apiSecret \in SecretInputs, symbol \in SymbolInputs :
       LET req == Req(txn.req.ip, "openOrders", symbol, NoMore, apiKey, apiSecret)
       IN \E up \in Replies(OpenOrdersHandler(req, clock, Transport, "express4"),
                            OkGeneric \cup Failures) :
            \E ex \in FrameworksFor(up) :
              Serve(req, TRUE, up, OpenOrdersHandler(req, clock, up, ex))

GetMyTrades ==
  /\ Dispatched("myTrades")
  /\ \E apiKey \in KeyInputs, apiSecret \in SecretInputs, symbol \in SymbolInputs,
        limit \in Maybe(<<"5">>), fromId \in Maybe(<<"7">>),
        startTime \in Maybe(<<"1", "0">>), endTime \in Maybe(<<"2", "0">>) :
       LET req == Req(txn.req.ip, "myTrades", symbol,
                      [interval |-> Absent, limit |-> limit, fromId |-> fromId,
                       startTime |-> startTime, endTime |-> endTime], apiKey, apiSecret)
       IN \E up \in Replies(MyTradesHandler(req, clock, Transport, "express4"),
                            OkGeneric \cup Failures) :
            \E ex \in FrameworksFor(up) :
              Serve(req, TRUE, up, MyTradesHandler(req, clock, up, ex))

GetMarketData ==
  /\ Dispatched("marketData")
  /\ \E symbol \in SymbolInputs :
       LET req == Req(txn.req.ip, "marketData", symbol, NoMore, Absent, Absent)
       IN \E up \in IF Truthy(symbol) THEN OkPrice \cup Failures ELSE {NoReply} :
            Serve(req, Truthy(symbol), up, MarketDataHandler(req, up))

GetSymbolQuery ==
  /\ Dispatched("symbolQuery")
  /\ \E symbol \in SymbolInputs :
       LET req == Req(txn.req.ip, "symbolQuery", symbol, NoMore, Absent, Absent)
       IN \E up \in Replies(SymbolQueryHandler(req, Transport), OkPrice \cup Failures) :
            Serve(req, TRUE, up, SymbolQueryHandler(req, up))

\* Half a window passes; the timers of the records that have run out fire
\* and delete them.
Tick ==
  /\ clock < MaxTicks * TickSeconds
  /\ clock' = clock + TickSeconds
  /\ limiter' = [ip \in Clients |->
                   IF limiter[ip].consumed > 0 /\ limiter[ip].expiresAt <= clock'
                   THEN NoRecord ELSE limiter[ip]]
  /\ UNCHANGED <<app, window, txn, signCall>>

NoSign == [secret |-> <<>>, params |-> <<>>, called |-> FALSE,
           out |-> [threw |-> FALSE, message |-> <<>>, digest |-> ""]]

Init ==
  /\ app \in Apps
  /\ clock = 0
  /\ limiter = [ip \in Clients |-> NoRecord]
  /\ window = [ip \in Clients |-> [start |-> 0, n |-> 0]]
  /\ txn = NoTxn
  /\ signCall = NoSign

Next ==
  \/ Arrive(OneClient)
  \/ GetRoot
  \/ GetPing(OkGeneric \cup Failures)
  \/ GetPrice
  \/ GetPrices
  \/ GetExchangeInfo
  \/ GetKlines
  \/ GetTicker24hr
  \/ GetBalances
  \/ GetAccount
  \/ GetOpenOrders
  \/ GetMyTrades
  \/ GetMarketData
  \/ GetSymbolQuery

Spec == Init /\ [][Next]_vars

(* The rate limiter over time: two clients, the clock moving.              *)
InitRate == Init /\ HasLimiter(app)

NextRate ==
  \/ Arrive(Clients)
  \/ GetRoot
  \/ GetPing({Ok(PlainObject), Transport})
  \/ Tick

SpecRate == InitRate /\ [][NextRate]_vars

(* The signature helper on its own, over every secret and parameter set.   *)
SignSecrets == {<<>>, <<"s", "3", "c">>, <<"k">>, <<"s", "&">>}

SignEntries ==
  { Param("timestamp", Given(<<"0">>)), Param("symbol", Given(<<"B", "T", "C">>)),
    Param("symbol", Given(<<"A", "&", "B">>)), Param("limit", Given(<<"5">>)),
    Param("fromId", Given(<<"7">>)), Param("endTime", Given(<<"2", "0">>)) }

\* parameter sets: insertion-ordered, keys unique
SignParamSets ==
  { p \in UNION {[1..n -> SignEntries] : n \in 0..MaxSignParams} :
      \A i, j \in 1..Len(p) : i # j => p[i].key # p[j].key }

SignAlone ==
  \E secret \in SignSecrets, params \in SignParamSets :
    /\ signCall' = [secret |-> secret, params |-> params, called |-> TRUE,
                    out |-> createBinanceSignature(secret, params)]
    /\ UNCHANGED <<app, clock, limiter, window, txn>>

InitSign == Init /\ app = "relay"

NextSign == SignAlone

SpecSign == InitSign /\ [][NextSign]_vars

----------------------------------------------------------------------------
(* Properties                                                              *)

Done == txn.stage = "done"

\* a header or parameter that is absent or empty
Missing(o) == ~o.present \/ Len(o.val) = 0

\* the request reached its handler: not refused by the limiter, route matched
Handled == Done /\ ~txn.limited /\ txn.routed

\* C1: on every account-scoped endpoint, a request whose X-API-KEY or
\* X-API-SECRET header is absent or empty is answered 400, no signature is
\* computed and no outbound call is made.
C1_MissingCredentials ==
  (Handled /\ txn.req.route \in AccountRoutes
     /\ (Missing(txn.req.apiKey) \/ Missing(txn.req.apiSecret)))
  => /\ txn.res.status = 400
     /\ txn.res.format = "json"
     /\ txn.sigs = <<>>
     /\ txn.calls = <<>>

C1_Witness ==
  /\ Handled /\ txn.req.route = "myTrades"
  /\ ~Missing(txn.req.apiKey) /\ txn.req.apiSecret = Given(<<>>)
  /\ ~Missing(txn.req.symbol)
  /\ txn.res.status = 400 /\ txn.calls = <<>>

\* C2 as claimed: every handler that makes an outbound call answers an
\* upstream non-2xx status S with status S and a body holding an error
\* label, the upstream status and the upstream's message when present.
C2_UpstreamStatusEverywhere ==
  (Done /\ txn.up.kind = "reject")
  => /\ txn.res.status = txn.up.status
     /\ txn.res.format = "json"
     /\ {"error", "code"} \subseteq txn.res.body.fields
     /\ txn.res.body.code = txn.up.status
     /\ (txn.up.data.msg.present => txn.res.body.message = txn.up.data.msg.val)

C2_Label(route) ==
  CASE route = "balances" -> <<"Failed to fetch balances from Binance">>
    [] route = "account" -> <<"Failed to fetch account info from Binance">>
    [] route = "openOrders" -> <<"Failed to fetch open orders from Binance">>
    [] OTHER -> <<"Failed to fetch trade history from Binance">>

\* C2 as amended: on an upstream non-2xx reply with status S, the four
\* account handlers answer S with {error: label, code: S, message: the
\* upstream msg when non-empty, else the client's error message}, unless
\* the upstream body is the JSON value null, for which they send no JSON
\* answer; /price/:symbol answers S with {error: label, details: upstream
\* body}; every other handler answers 500.
C2_UpstreamStatusAmended ==
  (Done /\ txn.up.kind = "reject")
  => CASE txn.req.route \in AccountRoutes /\ txn.up.data.shape = "null" ->
            txn.res.format # "json"
       [] txn.req.route \in AccountRoutes /\ txn.up.data.shape # "null" ->
            /\ txn.res.status = txn.up.status
            /\ txn.res.format = "json"
            /\ txn.res.body.fields = {"error", "code", "message"}
            /\ txn.res.body.error = C2_Label(txn.req.route)
            /\ txn.res.body.code = txn.up.status
            /\ txn.res.body.message =
                 IF ~Missing(txn.up.data.msg) THEN txn.up.data.msg.val
                 ELSE <<"Request failed with status code ", ToString(txn.up.status)>>
       [] txn.req.route = "price" ->
            /\ txn.res.status = txn.up.status
            /\ txn.res.format = "json"
            /\ txn.res.body.fields = {"error", "details"}
            /\ txn.res.body.details = txn.up.data
       [] OTHER -> txn.res.status = 500 /\ txn.res.format = "json"

C2_Witness ==
  /\ Done /\ txn.req.route = "myTrades"
  /\ txn.up = Reject(418, MsgObject)
  /\ txn.res.status = 418
  /\ txn.res.body.message = <<"rate limited by exchange">>

\* C3: every request that reaches the limiter or a handler ends with one
\* well-formed JSON response; no failure escapes the handler.
C3_AlwaysJson ==
  (Done /\ (txn.limited \/ txn.routed)) => txn.res.format = "json"

\* C4: the string the HMAC is computed over is the query string sent to the
\* upstream with its trailing signature entry removed, byte for byte.
C4_SignedIsWire ==
  (Done /\ txn.sigs # <<>>)
  => /\ Len(txn.calls) = 1
     /\ WireQuery(txn.calls[1]) =
          txn.sigs[1].message \o <<"&", "signature", "=", txn.sigs[1].digest>>

C6_NoSymbol ==
  /\ Done /\ ~txn.limited /\ Missing(txn.req.symbol)
  /\ \/ txn.req.route \in {"price", "marketData", "symbolQuery"}
     \/ /\ txn.req.route = "myTrades"
        /\ ~Missing(txn.req.apiKey) /\ ~Missing(txn.req.apiSecret)

\* C6 as claimed: on /price/:symbol, /api/market-data/:symbol, the
\* query-parameter handler and /myTrades with credentials, a missing or
\* empty symbol is answered 400 and no outbound call is made.
C6_MissingSymbol400 ==
  C6_NoSymbol => (txn.res.status = 400 /\ txn.calls = <<>>)

\* C6 as amended: the query-parameter handler and /myTrades with
\* credentials answer a missing or empty symbol with 400; on /price/:symbol
\* and /api/market-data/:symbol such a request matches no route, no handler
\* runs and the framework answers 404; in all four no outbound call is made.
C6_MissingSymbolAmended ==
  C6_NoSymbol
  => /\ txn.calls = <<>>
     /\ IF txn.req.route \in {"symbolQuery", "myTrades"}
        THEN txn.routed /\ txn.res.status = 400 /\ txn.res.format = "json"
        ELSE ~txn.routed /\ txn.res.status = 404

C6_Witness ==
  /\ C6_NoSymbol /\ txn.req.route = "symbolQuery"
  /\ txn.req.symbol = Given(<<>>)
  /\ txn.res.status = 400 /\ txn.calls = <<>>

\* C7: on the account endpoints the API secret occurs nowhere in the
\* outbound request, and the API key occurs only as the value of the one
\* header X-MBX-APIKEY: not in the query string and not in the signed string.
C7_CredentialsStayPut ==
  (Done /\ txn.req.route \in AccountRoutes)
  => \A i \in 1..Len(txn.calls) :
       LET call == txn.calls[i]
           secret == txn.req.apiSecret.val
           key == txn.req.apiKey.val
       IN /\ ~Contains(WireQuery(call), secret)
          /\ ~Contains(WireQuery(call), key)
          /\ \A j \in 1..Len(call.params) :
               call.params[j].key \notin {"apiKey", "apiSecret", "secret", "X-MBX-APIKEY"}
          /\ Len(call.headers) = 1
          /\ call.headers[1] = [name |-> "X-MBX-APIKEY", val |-> key]
          /\ ~Contains(call.headers[1].val, secret)
          /\ \A k \in 1..Len(txn.sigs) : ~Contains(txn.sigs[k].message, key)

C7_Witness ==
  /\ Done /\ txn.req.route = "openOrders" /\ txn.up.kind = "ok"
  /\ Len(txn.calls) = 1 /\ Len(txn.sigs) = 1
  /\ txn.req.symbol = Given(<<"A", "&", "B">>)

\* the amounts of the upstream balance entries, in hundredths
C8_Hundredths(text) ==
  CASE text = <<"1", ".", "5">> -> 150
    [] text = <<"0", ".", "2">> -> 20
    [] text = <<"1", "0">> -> 1000
    [] text = <<"0", ".", "0", "1">> -> 1
    [] OTHER -> 0

RECURSIVE C8_Expected(_)
C8_Expected(B) ==
  IF B = <<>> THEN <<>>
  ELSE LET b == Head(B)
           rest == C8_Expected(Tail(B))
       IN IF C8_Hundredths(b.free) > 0 \/ C8_Hundredths(b.locked) > 0
          THEN <<[asset |-> b.asset, available |-> b.free, onOrder |-> b.locked]>> \o rest
          ELSE rest

\* C8: for a successful account reply carrying a balances array B, /balances
\* answers 200 with exactly the entries of B whose free or locked amount is
\* above zero, in B's order, each as {asset, available: free, onOrder:
\* locked} with the amount strings unchanged.
C8_FilteredBalances ==
  (Handled /\ txn.req.route = "balances" /\ txn.up.kind = "ok"
     /\ txn.up.data.shape = "object" /\ txn.up.data.balancesKind = "array")
  => /\ txn.res.status = 200
     /\ txn.res.format = "json"
     /\ txn.res.body.balances = C8_Expected(txn.up.data.balances)

C8_Witness ==
  /\ Handled /\ txn.req.route = "balances" /\ txn.up.kind = "ok"
  /\ txn.up.data.balances =
       <<[asset |-> "BTC", free |-> <<"0">>, locked |-> <<"0">>],
         [asset |-> "ETH", free |-> <<"1", ".", "5">>, locked |-> <<"0">>]>>
  /\ txn.res.body.balances =
       <<[asset |-> "ETH", available |-> <<"1", ".", "5">>, onOrder |-> <<"0">>]>>

\* the request passes the input validation of its route
C9_Valid(req) ==
  CASE req.route \in {"balances", "account", "openOrders"} ->
         ~Missing(req.apiKey) /\ ~Missing(req.apiSecret)
    [] req.route = "myTrades" ->
         ~Missing(req.apiKey) /\ ~Missing(req.apiSecret) /\ ~Missing(req.symbol)
    [] req.route \in {"price", "marketData", "symbolQuery"} -> ~Missing(req.symbol)
    [] OTHER -> TRUE

C9_FailureNotRetried ==
  txn.up.kind \in {"reject", "transport"}
    => (Len(txn.calls) = 1 /\ txn.res.status # 200)

\* C9 as claimed: every request that passes the rate limiter and input
\* validation causes exactly one outbound GET, on every branch of every
\* handler; a failed attempt is not retried; a request refused by the
\* limiter or at validation causes none.
C9_OneCallEach ==
  Done => /\ IF ~txn.limited /\ C9_Valid(txn.req)
             THEN Len(txn.calls) = 1 ELSE Len(txn.calls) = 0
          /\ C9_FailureNotRetried

\* C9 as amended: the same for every route but GET /, whose handler answers
\* from the relay itself and makes no outbound call; a failed attempt is
\* not retried and is never answered as a success.
C9_OneCallAmended ==
  Done => /\ IF ~txn.limited /\ C9_Valid(txn.req) /\ txn.req.route # "root"
             THEN Len(txn.calls) = 1 ELSE Len(txn.calls) = 0
          /\ C9_FailureNotRetried

C9_Witness ==
  /\ Done /\ txn.req.route = "ticker24hr" /\ Missing(txn.req.symbol)
  /\ txn.up = Transport /\ Len(txn.calls) = 1 /\ txn.res.status = 500

\* C10 as claimed: the signature helper fails, returning no digest, exactly
\* when the secret or the parameter set is empty.
C10_RejectsEmpty ==
  signCall.called
  => (signCall.out.threw <=> (signCall.secret = <<>> \/ signCall.params = <<>>))

RECURSIVE C10_Pairs(_)
C10_Pairs(params) ==
  IF params = <<>> THEN <<>>
  ELSE <<Head(params).key, "=">> \o Head(params).val.val
         \o (IF Tail(params) = <<>> THEN <<>> ELSE <<"&">> \o C10_Pairs(Tail(params)))

\* C10 as amended: the signature helper validates nothing: for every secret
\* and every parameter set, the empty ones included, it returns the HMAC of
\* the key=value pairs joined by '&' (of the empty string for no pairs).
C10_AlwaysDigest ==
  signCall.called
  => /\ ~signCall.out.threw
     /\ signCall.out.digest = HmacSha256Hex(signCall.secret, C10_Pairs(signCall.params))

C10_Witness ==
  /\ signCall.called /\ signCall.secret = <<>> /\ signCall.params = <<>>
  /\ ~signCall.out.threw /\ signCall.out.digest = HmacSha256Hex(<<>>, <<>>)

====
